---- MODULE Spec2Model ----
(***************************************************************************)
(* Model of the workerlink shortlink service: the request handlers of      *)
(* src/lib.rs acting on one Cloudflare KV namespace through                *)
(* CloudflareKVDriver, plus LinkModel::is_valid of src/models.  In Spec    *)
(* the requests run one after another; any backend call may fail.          *)
(*                                                                         *)
(* A handler is split at its storage awaits.  One action is one backend    *)
(* call together with the synchronous code that follows it up to the next  *)
(* await; other requests and the clock interleave between actions.         *)
(* The variable event describes the step just taken: which handler ran,    *)
(* the backend call it made and whether the backend answered, and the      *)
(* response it sent, if any.                                               *)
(* Option<T> is a sequence of length 0 (None) or 1 (Some).                 *)
(***************************************************************************)
EXTENDS Integers, Sequences, FiniteSets, TLC

\* ---- bounds ----
MaxTime == 1
MaxCount == 2
MaxExpireIn == 1
MaxMaxViews == 2
MaxConcViews == 1

\* Request slots.  Requests run one at a time in Spec, in slot "r1".
Procs == {"r1", "r2"}
Sequential == {"r1"}
Keys == {"abc"}

None == <<>>
Some(v) == <<v>>
IsSome(o) == Len(o) = 1
Unwrap(o) == o[1]

\* ---- URLs ----
\* req.url() of a request on key k: the worker is served from sho.rt.
RequestUrl(k) == [scheme |-> "https", domain |-> "sho.rt", path |-> k]

\* Bodies' url strings.
UrlStrings == {"https://example.com", "https://example.org/a",
               "http://sho.rt/loop", "https://sho.rt", "not a url"}


\* url::Url::parse: Some(parsed) or None (Err).  An empty path of a special
\* scheme is normalised to "/".
UrlParse(s) ==
    CASE s = "https://example.com"   -> Some([scheme |-> "https", domain |-> "example.com", path |-> "/"])
      [] s = "https://example.org/a" -> Some([scheme |-> "https", domain |-> "example.org", path |-> "/a"])
      [] s = "http://sho.rt/loop"    -> Some([scheme |-> "http", domain |-> "sho.rt", path |-> "/loop"])
      [] s = "https://sho.rt"        -> Some([scheme |-> "https", domain |-> "sho.rt", path |-> "/"])
      [] OTHER                       -> None

\* validator's #[validate(url)]: the string parses as a URL.
ValidateUrl(s) == IsSome(UrlParse(s))

\* #[validate(range(min = 1))] on Option<u64>: None passes.
ValidateMaxViews(mv) == IsSome(mv) => Unwrap(mv) >= 1

\* CreateShortlinkRequestBody::validate
BodyValidate(body) == ValidateUrl(body.url) /\ ValidateMaxViews(body.max_views)

Bodies ==
    [url : UrlStrings, overwrite : BOOLEAN,
     expire_in : {None} \cup {Some(d) : d \in 0..MaxExpireIn},
     max_views : {None} \cup {Some(n) : n \in 0..MaxMaxViews},
     disabled : BOOLEAN]

\* ---- authentication ----
AuthTokens == {"", "secret"}
AuthHeaders == {None, Some(""), Some("secret"), Some("wrong")}

\* The requests enumerated for POST /:id: under the header that carries the
\* secret, every body whose url is another site's and, for each other url,
\* the bodies that differ in overwrite only; and every header with one body.
DefaultBody == [url |-> "https://example.com", overwrite |-> FALSE,
                expire_in |-> None, max_views |-> None, disabled |-> FALSE]
TargetUrlStrings == {"https://example.com", "https://example.org/a"}
CreateInputs ==
    {in \in AuthHeaders \X Bodies :
        \/ in[1] = Some("secret") /\ in[2].url \in TargetUrlStrings
        \/ in[1] = Some("secret") /\ in[2] = [DefaultBody EXCEPT !.url = in[2].url,
                                                              !.overwrite = in[2].overwrite]
        \/ in[2] = DefaultBody}

AuthorizationState_NoEmptyCheck(header, token) ==
    IF ~IsSome(header) THEN "NoAuthorizationSent"
    ELSE IF Unwrap(header) = token THEN "Authorized"
    ELSE "Unauthorized"

\* authentication.rs is_request_authorized
AuthorizationState(header, token) ==
    IF token = "" THEN "InternalNoTokenSet"
    ELSE IF ~IsSome(header) THEN "NoAuthorizationSent"
    ELSE IF Unwrap(header) = token THEN "Authorized"
    ELSE "Unauthorized"

\* lib.rs uses the result as "is the request authorized".
is_request_authorized(header, token) ==
    AuthorizationState(header, token) = "Authorized"

\* ---- storage payloads ----
Garbage == [kind |-> "garbage", rec |-> None]

\* serde_json::to_string of a ShortlinkModel
ToJson(model) == [kind |-> "json", rec |-> Some(model)]

FromJson_DecodesAnything(raw) ==
    IF raw.kind = "json" THEN raw.rec
    ELSE Some([url |-> [scheme |-> "https", domain |-> "example.com", path |-> "/"],
               max_views |-> None, views |-> 0, last_visited_timestamp |-> None,
               created_at_timestamp |-> 0, disabled |-> FALSE,
               expiry_timestamp |-> None])

\* serde_json::from_str::<ShortlinkModel>: Err collapses to None
FromJson(raw) == IF raw.kind = "json" THEN raw.rec ELSE None

VARIABLES
    store,      \* KV namespace: key -> Option<raw payload>
    clock,      \* Date::now().as_millis()
    authToken,  \* the AUTH_TOKEN binding
    req,        \* per request slot: the handler's position and locals
    event,      \* the step just taken
    hist        \* what the clients of the one key have been answered so far

vars == <<store, clock, authToken, req, event, hist>>

\* status 0: no response sent by the step.  status -1: the handler panicked
\* (unwrap on Err) and sent no response of its own.
\* message: the text of a Response::error that tells apart two errors of one
\* status in a handler ("" elsewhere).
NoResp == [status |-> 0, location |-> None, json |-> None, message |-> ""]
Resp(status) == [NoResp EXCEPT !.status = status]
Panic == Resp(-1)

IdleReq == [op |-> "none", pc |-> "idle", key |-> "", body |-> None,
            already_exists |-> FALSE, value |-> None]

NoEvent == [p |-> "", op |-> "none", key |-> "", call |-> "none", ok |-> TRUE,
            overwrite |-> FALSE, resp |-> NoResp]

\* The step of handler op of slot p on key k that made backend call `call`.
Event(p, op, k, call, ok, resp) ==
    [NoEvent EXCEPT !.p = p, !.op = op, !.key = k, !.call = call, !.ok = ok,
                    !.resp = resp]

Free(p) == req[p].pc = "idle"

\* Nothing answered yet.
\*   redirects: the 302s of GET /:id requests that loaded the key after the
\*              last POST /:id wrote it (counted up to MaxConcViews + 2);
\*   fresh:     the slots whose GET /:id in flight loaded the key after that
\*              write;
\*   deleted:   a DELETE /:id has answered 200 and no POST /:id has written
\*              the key since;
\*   config:    url, disabled, max_views and expiry_timestamp of the last
\*              POST /:id that answered 200, no delete having succeeded since;
\*   plain:     the POST /:id requests with overwrite = false answered 200
\*              since the last successful delete (counted up to 2).
NoHist == [redirects |-> 0, fresh |-> {}, deleted |-> FALSE, config |-> None,
           plain |-> 0]

Init ==
    /\ store \in [Keys -> {None, Some(Garbage)}]
    /\ clock = 0
    /\ authToken \in AuthTokens
    /\ req = [p \in Procs |-> IdleReq]
    /\ event = NoEvent
    /\ hist = NoHist

\* ---- LinkModel (src/models/link.rs) ----
\* LinkModel::is_valid at time now
is_valid(self, now) ==
    IF IsSome(self.expiry_timestamp) /\ now > Unwrap(self.expiry_timestamp) THEN FALSE
    ELSE IF IsSome(self.max_views) /\ self.views >= Unwrap(self.max_views) THEN FALSE
    ELSE TRUE

\* ---- the clock ----
Tick ==
    /\ clock < MaxTime
    /\ clock' = clock + 1
    /\ event' = NoEvent
    /\ UNCHANGED <<store, authToken, req>>

\* ---- CloudflareKVDriver ----
\* get: Some(result) when the backend answers; None when text() is Err, on
\* which the unwrap panics.
DriverGet(k, ok) == IF ok THEN Some(store[k]) ELSE None

\* get_from_json on an answered get
GetFromJson(raw) == IF IsSome(raw) THEN FromJson(Unwrap(raw)) ELSE None

DriverSet_IfNewer(k, model, ok) ==
    LET stored == GetFromJson(store[k])
    IN  IF ok /\ (IsSome(stored) => Unwrap(stored).views < model.views)
        THEN [store EXCEPT ![k] = Some(ToJson(model))] ELSE store

DriverSet_WritesOnFailure(k, model, ok) ==
    [store EXCEPT ![k] = Some(ToJson(model))]

\* set/set_as_json: the namespace after the call; the call returns ok.
DriverSet(k, model, ok) ==
    IF ok THEN [store EXCEPT ![k] = Some(ToJson(model))] ELSE store

DriverDelete_KeepsKey(k, ok) == store

\* delete: the namespace after the call; the call returns ok.
DriverDelete(k, ok) == IF ok THEN [store EXCEPT ![k] = None] ELSE store

\* A handler step of slot p: its locals afterwards (IdleReq once it has
\* responded) and the event.
Step(p, r, op, k, call, ok, resp) ==
    /\ req' = [req EXCEPT ![p] = IF resp.status = 0 THEN r ELSE IdleReq]
    /\ event' = Event(p, op, k, call, ok, resp)

\* ---- HEAD /:id ----
shortlink_exists(p, k) ==
    /\ Free(p)
    /\ \E ok \in BOOLEAN :
        LET got == DriverGet(k, ok)
            resp == IF ~IsSome(got) THEN Panic
                    ELSE IF ~IsSome(Unwrap(got)) THEN Resp(404)
                    ELSE Resp(302)
        IN  Step(p, IdleReq, "exists", k, "get", ok, resp)
    /\ UNCHANGED <<store, clock, authToken>>

\* ---- GET /:id ----
\* The validation of lines 88-106: which branch the loaded value takes.
RedirectCheck_NoMaxViews(value, now) ==
    IF value.disabled THEN "disabled"
    ELSE IF IsSome(value.expiry_timestamp) /\ now > Unwrap(value.expiry_timestamp)
         THEN "expired"
    ELSE "ok"

RedirectCheck_ExpiredAtExpiry(value, now) ==
    IF value.disabled THEN "disabled"
    ELSE IF IsSome(value.expiry_timestamp) /\ now >= Unwrap(value.expiry_timestamp)
         THEN "expired"
    ELSE IF IsSome(value.max_views) /\ value.views >= Unwrap(value.max_views)
         THEN "exhausted"
    ELSE "ok"

RedirectCheck_OneMoreView(value, now) ==
    IF value.disabled THEN "disabled"
    ELSE IF IsSome(value.expiry_timestamp) /\ now > Unwrap(value.expiry_timestamp)
         THEN "expired"
    ELSE IF IsSome(value.max_views) /\ value.views > Unwrap(value.max_views)
         THEN "exhausted"
    ELSE "ok"

RedirectCheck(value, now) ==
    IF value.disabled THEN "disabled"
    ELSE IF IsSome(value.expiry_timestamp) /\ now > Unwrap(value.expiry_timestamp)
         THEN "expired"
    ELSE IF IsSome(value.max_views) /\ value.views >= Unwrap(value.max_views)
         THEN "exhausted"
    ELSE "ok"

RedirectVisit_KeepsTimestamp(value, now) ==
    [value EXCEPT !.views = @ + 1]

\* Lines 108-109: count the visit on the loaded value.
RedirectVisit(value, now) ==
    [value EXCEPT !.views = @ + 1, !.last_visited_timestamp = Some(now)]

\* Keeps the views counter of the model finite: no visit is counted past
\* MaxCount.
CanVisit(k) ==
    LET shortlink == GetFromJson(store[k])
    IN  (IsSome(shortlink) /\ RedirectCheck(Unwrap(shortlink), clock) = "ok")
            => Unwrap(shortlink).views < MaxCount

do_shortlink_redirect(p, k) ==
    /\ Free(p)
    /\ CanVisit(k)
    /\ \E ok \in BOOLEAN :
        LET start == [IdleReq EXCEPT !.op = "redirect", !.key = k]
            got == DriverGet(k, ok)
            shortlink == GetFromJson(Unwrap(got))
            value == Unwrap(shortlink)
            check == RedirectCheck(value, clock)
        IN  IF ~IsSome(got) THEN Step(p, start, "redirect", k, "get", ok, Panic)
            ELSE IF ~IsSome(shortlink) THEN Step(p, start, "redirect", k, "get", ok, Resp(404))
            ELSE IF check = "disabled" THEN Step(p, start, "redirect", k, "get", ok, Resp(404))
            ELSE IF check \in {"expired", "exhausted"}
                 THEN Step(p, [start EXCEPT !.pc = "delete", !.value = shortlink],
                           "redirect", k, "get", ok, NoResp)
            ELSE Step(p, [start EXCEPT !.pc = "set",
                                       !.value = Some(RedirectVisit(value, clock))],
                      "redirect", k, "get", ok, NoResp)
    /\ UNCHANGED <<store, clock, authToken>>

\* storage.delete(&key).await of lines 95 and 103, its result ignored, and
\* the 404.
redirect_delete(p) ==
    /\ req[p].op = "redirect" /\ req[p].pc = "delete"
    /\ \E ok \in BOOLEAN :
        /\ store' = DriverDelete(req[p].key, ok)
        /\ Step(p, req[p], "redirect", req[p].key, "delete", ok, Resp(404))
    /\ UNCHANGED <<clock, authToken>>

\* storage.set_as_json(&key, &shortlink).await of line 115, its result
\* ignored, and the redirect of line 116.
redirect_set(p) ==
    /\ req[p].op = "redirect" /\ req[p].pc = "set"
    /\ \E ok \in BOOLEAN :
        LET shortlink == Unwrap(req[p].value)
        IN  /\ store' = DriverSet(req[p].key, shortlink, ok)
            /\ Step(p, req[p], "redirect", req[p].key, "set", ok,
                    [Resp(302) EXCEPT !.location = Some(shortlink.url)])
    /\ UNCHANGED <<clock, authToken>>

\* ---- GET /:id/details ----
DetailsCheck_NoExpiry(value, now) ==
    IF value.disabled THEN "disabled"
    ELSE IF IsSome(value.max_views) /\ value.views >= Unwrap(value.max_views)
         THEN "exhausted"
    ELSE "ok"

\* The validation of lines 131-149.
DetailsCheck(value, now) ==
    IF value.disabled THEN "disabled"
    ELSE IF IsSome(value.expiry_timestamp) /\ now > Unwrap(value.expiry_timestamp)
         THEN "expired"
    ELSE IF IsSome(value.max_views) /\ value.views >= Unwrap(value.max_views)
         THEN "exhausted"
    ELSE "ok"

get_shortlink_details(p, k, header) ==
    /\ Free(p)
    /\ \E ok \in BOOLEAN :
        LET start == [IdleReq EXCEPT !.op = "details", !.key = k]
            got == DriverGet(k, ok)
            shortlink == GetFromJson(Unwrap(got))
            value == Unwrap(shortlink)
            check == DetailsCheck(value, clock)
        IN  IF ~is_request_authorized(header, authToken)
                 THEN Step(p, start, "details", k, "none", TRUE, Resp(401))
            ELSE IF ~IsSome(got) THEN Step(p, start, "details", k, "get", ok, Panic)
            ELSE IF ~IsSome(shortlink) THEN Step(p, start, "details", k, "get", ok, Resp(404))
            ELSE IF check = "disabled" THEN Step(p, start, "details", k, "get", ok, Resp(404))
            ELSE IF check \in {"expired", "exhausted"}
                 THEN Step(p, [start EXCEPT !.pc = "delete", !.value = shortlink],
                           "details", k, "get", ok, NoResp)
            ELSE Step(p, start, "details", k, "get", ok,
                      [Resp(200) EXCEPT !.json = shortlink])
    /\ UNCHANGED <<store, clock, authToken>>

\* storage.delete(&key).await of lines 138 and 146, and the 404.
details_delete(p) ==
    /\ req[p].op = "details" /\ req[p].pc = "delete"
    /\ \E ok \in BOOLEAN :
        /\ store' = DriverDelete(req[p].key, ok)
        /\ Step(p, req[p], "details", req[p].key, "delete", ok, Resp(404))
    /\ UNCHANGED <<clock, authToken>>

\* ---- POST /:id ----
\* The ShortlinkModel literal of lines 202-212.
NewModel(url, body, now) ==
    [url |-> url,
     max_views |-> body.max_views,
     views |-> 0,
     last_visited_timestamp |-> None,
     created_at_timestamp |-> now,
     disabled |-> body.disabled,
     expiry_timestamp |-> IF IsSome(body.expire_in)
                          THEN Some(now + Unwrap(body.expire_in)) ELSE None]

from_shortlink_model_NotOverwritten(shortlink_model, web_url, overwritten) ==
    [url |-> web_url,
     original_url |-> shortlink_model.url,
     overwritten |-> FALSE,
     expiry_timestamp |-> shortlink_model.expiry_timestamp,
     max_views |-> shortlink_model.max_views,
     disabled |-> shortlink_model.disabled]

\* CreateShortlinkResponse::from_shortlink_model
from_shortlink_model(shortlink_model, web_url, overwritten) ==
    [url |-> web_url,
     original_url |-> shortlink_model.url,
     overwritten |-> overwritten,
     expiry_timestamp |-> shortlink_model.expiry_timestamp,
     max_views |-> shortlink_model.max_views,
     disabled |-> shortlink_model.disabled]

SameDomain_SameSchemeToo(request_url, url) ==
    request_url.domain = url.domain /\ request_url.scheme = url.scheme

\* Line 186: the target is on the domain the request came to.
SameDomain(request_url, url) == request_url.domain = url.domain

Conflict_WhenOverwriting(overwrite, already_exists) == overwrite /\ already_exists

\* Line 195: the request is refused as a conflict.
Conflict(overwrite, already_exists) == ~overwrite /\ already_exists

create_or_update_shortlink(p, k, header, body) ==
    /\ Free(p)
    /\ \E ok \in BOOLEAN :
        LET start == [IdleReq EXCEPT !.op = "create", !.key = k, !.body = Some(body)]
            url == UrlParse(body.url)
            got == DriverGet(k, ok)
            already_exists == IsSome(Unwrap(got))
            model == NewModel(Unwrap(url), body, clock)
            Reject(status, message) ==
                /\ req' = req
                /\ event' = [Event(p, "create", k, "none", TRUE,
                                   [Resp(status) EXCEPT !.message = message])
                                EXCEPT !.overwrite = body.overwrite]
            Exists(r, resp) ==
                /\ req' = [req EXCEPT ![p] = r]
                /\ event' = [Event(p, "create", k, "get", ok, resp)
                                EXCEPT !.overwrite = body.overwrite]
        IN  IF ~is_request_authorized(header, authToken) THEN Reject(401, "")
            ELSE IF ~BodyValidate(body) THEN Reject(400, "Invalid payload")
            ELSE IF ~IsSome(url) THEN Reject(400, "Unable to parse given URL")
            ELSE IF SameDomain(RequestUrl(k), Unwrap(url))
                 THEN Reject(400, "Cannot make a Shortlink to the same domain")
            ELSE IF ~IsSome(got) THEN Exists(IdleReq, Panic)
            ELSE IF Conflict(body.overwrite, already_exists) THEN Exists(IdleReq, Resp(409))
            ELSE Exists([start EXCEPT !.pc = "set", !.already_exists = already_exists,
                                      !.value = Some(model)], NoResp)
    /\ UNCHANGED <<store, clock, authToken>>

\* storage.set_as_json(&key, &model).await of line 214 and the response.
create_set(p) ==
    /\ req[p].op = "create" /\ req[p].pc = "set"
    /\ \E ok \in BOOLEAN :
        LET r == req[p]
            model == Unwrap(r.value)
            resp == IF ~ok THEN Resp(500)
                    ELSE [Resp(200) EXCEPT !.json =
                            Some(from_shortlink_model(model, RequestUrl(r.key),
                                                      r.already_exists))]
        IN  /\ store' = DriverSet(r.key, model, ok)
            /\ req' = [req EXCEPT ![p] = IdleReq]
            /\ event' = [Event(p, "create", r.key, "set", ok, resp)
                            EXCEPT !.overwrite = Unwrap(r.body).overwrite]
    /\ UNCHANGED <<clock, authToken>>

\* ---- DELETE /:id ----
delete_shortlink(p, k, header) ==
    /\ Free(p)
    /\ \E ok \in BOOLEAN :
        LET start == [IdleReq EXCEPT !.op = "delete", !.key = k]
            got == DriverGet(k, ok)
        IN  IF ~is_request_authorized(header, authToken)
                 THEN Step(p, start, "delete", k, "none", TRUE, Resp(401))
            ELSE IF ~IsSome(got) THEN Step(p, start, "delete", k, "get", ok, Panic)
            ELSE IF ~IsSome(Unwrap(got)) THEN Step(p, start, "delete", k, "get", ok, Resp(404))
            ELSE Step(p, [start EXCEPT !.pc = "delete"], "delete", k, "get", ok, NoResp)
    /\ UNCHANGED <<store, clock, authToken>>

\* storage.delete(&key).await of line 242 and the response.
delete_delete(p) ==
    /\ req[p].op = "delete" /\ req[p].pc = "delete"
    /\ \E ok \in BOOLEAN :
        /\ store' = DriverDelete(req[p].key, ok)
        /\ Step(p, req[p], "delete", req[p].key, "delete", ok,
                IF ok THEN Resp(200) ELSE Resp(500))
    /\ UNCHANGED <<clock, authToken>>

\* Requests served one at a time; hist is kept by the concurrent
\* specification only.
Next ==
    \/ Tick /\ UNCHANGED hist
    \/ \E p \in Sequential, k \in Keys : shortlink_exists(p, k) /\ UNCHANGED hist
    \/ \E p \in Sequential, k \in Keys : do_shortlink_redirect(p, k) /\ UNCHANGED hist
    \/ \E p \in Sequential : redirect_delete(p) /\ UNCHANGED hist
    \/ \E p \in Sequential : redirect_set(p) /\ UNCHANGED hist
    \/ \E p \in Sequential, k \in Keys, h \in AuthHeaders :
          get_shortlink_details(p, k, h) /\ UNCHANGED hist
    \/ \E p \in Sequential : details_delete(p) /\ UNCHANGED hist
    \/ \E p \in Sequential, k \in Keys, in \in CreateInputs :
          create_or_update_shortlink(p, k, in[1], in[2]) /\ UNCHANGED hist
    \/ \E p \in Sequential : create_set(p) /\ UNCHANGED hist
    \/ \E p \in Sequential, k \in Keys, h \in AuthHeaders :
          delete_shortlink(p, k, h) /\ UNCHANGED hist
    \/ \E p \in Sequential : delete_delete(p) /\ UNCHANGED hist

Spec == Init /\ [][Next]_vars

(***************************************************************************)
(* Concurrent requests.  The Workers runtime interleaves the handlers of   *)
(* several requests at their awaits; no handler takes a lock.              *)
(***************************************************************************)
\* The POST /:id bodies of the concurrent clients: another site's url,
\* either value of overwrite, max_views unset or 1..MaxConcViews.
ConcBodies ==
    {body \in Bodies :
        /\ body.url \in TargetUrlStrings
        /\ body.expire_in = None /\ ~body.disabled
        /\ body.max_views \in {None} \cup {Some(n) : n \in 1..MaxConcViews}}

\* url, disabled, max_views and expiry_timestamp of a stored record.
Config(model) ==
    [url |-> model.url, disabled |-> model.disabled,
     max_views |-> model.max_views, expiry_timestamp |-> model.expiry_timestamp]

\* hist after the step just taken (event').
HistAfter ==
    LET e == event'
        p == e.p
    IN  IF e.op = "create" /\ e.call = "set" /\ e.resp.status = 200
        THEN [redirects |-> 0, fresh |-> {}, deleted |-> FALSE,
              config |-> Some(Config(Unwrap(req[p].value))),
              plain |-> IF e.overwrite \/ hist.plain = 2 THEN hist.plain
                        ELSE hist.plain + 1]
        ELSE IF e.call = "delete" /\ e.ok
        THEN [hist EXCEPT !.deleted = @ \/ e.op = "delete",
                          !.config = None, !.plain = 0]
        ELSE IF e.op = "redirect" /\ e.call = "get" /\ req'[p].pc = "set"
        THEN [hist EXCEPT !.fresh = @ \cup {p}]
        ELSE IF e.op = "redirect" /\ e.call = "set"
        THEN [hist EXCEPT !.fresh = @ \ {p},
                          !.redirects = IF p \in hist.fresh /\ @ < MaxConcViews + 2
                                        THEN @ + 1 ELSE @]
        ELSE hist

\* The backend answers the call of the step, and the answer is recorded.
Answered == event'.ok /\ hist' = HistAfter

\* Two clients that hold the secret, their requests interleaved at the
\* awaits, the backend answering every call.
NextConc ==
    \/ \E p \in Procs, k \in Keys : do_shortlink_redirect(p, k) /\ Answered
    \/ \E p \in Procs : redirect_delete(p) /\ Answered
    \/ \E p \in Procs : redirect_set(p) /\ Answered
    \/ \E p \in Procs, k \in Keys : get_shortlink_details(p, k, Some("secret")) /\ Answered
    \/ \E p \in Procs : details_delete(p) /\ Answered
    \/ \E p \in Procs, k \in Keys, body \in ConcBodies :
          create_or_update_shortlink(p, k, Some("secret"), body) /\ Answered
    \/ \E p \in Procs : create_set(p) /\ Answered
    \/ \E p \in Procs, k \in Keys : delete_shortlink(p, k, Some("secret")) /\ Answered
    \/ \E p \in Procs : delete_delete(p) /\ Answered

SpecConc == Init /\ [][NextConc]_vars

(***************************************************************************)
(* Vocabulary of the properties                                            *)
(***************************************************************************)
\* The record stored under k, if the payload decodes as one.
Stored(k) == GetFromJson(store[k])
StoredNext(k) == GetFromJson(store'[k])

Disabled(rec) == rec.disabled
TimeExpired(rec, now) ==
    IsSome(rec.expiry_timestamp) /\ now > Unwrap(rec.expiry_timestamp)
ViewExhausted(rec) ==
    IsSome(rec.max_views) /\ rec.views >= Unwrap(rec.max_views)
Invalid(rec, now) == Disabled(rec) \/ TimeExpired(rec, now) \/ ViewExhausted(rec)

\* The step taken is the first step of handler op in slot p, its get answered.
Loads(p, op) ==
    /\ event'.p = p /\ event'.op = op /\ event'.call = "get" /\ event'.ok
    /\ req[p].pc = "idle"

\* ... and the payload it got decodes as a record.
LoadsRecord(p, op) == Loads(p, op) /\ IsSome(Stored(event'.key))

\* The step taken is the await of `call` in handler op of slot p.
Awaits(p, op, call) ==
    /\ req[p].op = op /\ req[p].pc = call
    /\ event'.p = p /\ event'.op = op /\ event'.call = call

Responds(status) == event'.resp.status = status
NoResponse == event'.resp.status = 0

(***************************************************************************)
(* C1: CreateOrUpdate with overwrite=true on a key that holds a record     *)
(* stores a record with the prior record's views, createdAt and            *)
(* lastViewedAt and the request's target, disabled, maxViews, expiresAt.   *)
(* The handler builds a fresh model instead (views 0, created now).        *)
(***************************************************************************)
C1_OverwritePreservesCounters ==
    [][\A p \in Procs :
        (/\ Awaits(p, "create", "set") /\ event'.ok
         /\ Unwrap(req[p].body).overwrite
         /\ IsSome(Stored(req[p].key)))
        => LET old == Unwrap(Stored(req[p].key))
               new == Unwrap(StoredNext(req[p].key))
               body == Unwrap(req[p].body)
           IN  /\ IsSome(StoredNext(req[p].key))
               /\ new.views = old.views
               /\ new.created_at_timestamp = old.created_at_timestamp
               /\ new.last_visited_timestamp = old.last_visited_timestamp
               /\ new.url = Unwrap(UrlParse(body.url))
               /\ new.disabled = body.disabled
               /\ new.max_views = body.max_views
               /\ new.expiry_timestamp = Unwrap(req[p].value).expiry_timestamp]_vars

(***************************************************************************)
(* C2: Resolve on a key whose stored record is invalid returns NotFound,   *)
(* leaves the key absent and increments nothing.                           *)
(***************************************************************************)
\* As claimed: every such Resolve, the backend answering, ends in a 404 with
\* the key absent.
C2_InvalidResolveLeavesKeyAbsent ==
    [][\A p \in Procs :
        /\ (LoadsRecord(p, "redirect") /\ Invalid(Unwrap(Stored(event'.key)), clock))
            => \/ Responds(404) /\ store'[event'.key] = None
               \/ NoResponse /\ req'[p].pc = "delete"
        /\ (Awaits(p, "redirect", "delete") /\ event'.ok)
            => Responds(404) /\ store'[event'.key] = None]_vars

\* As amended: a disabled record is answered 404 and stays stored as it is;
\* an expired or exhausted record that is not disabled is deleted, the 404
\* sent whether or not the delete succeeds, the record untouched if it fails.
C2_InvalidResolveNotFound ==
    [][\A p \in Procs :
        /\ (LoadsRecord(p, "redirect") /\ Invalid(Unwrap(Stored(event'.key)), clock))
            => /\ store' = store
               /\ IF Disabled(Unwrap(Stored(event'.key)))
                  THEN Responds(404) /\ req'[p] = IdleReq
                  ELSE NoResponse /\ req'[p].pc = "delete"
        /\ Awaits(p, "redirect", "delete")
            => /\ Responds(404)
               /\ IF event'.ok THEN store' = [store EXCEPT ![event'.key] = None]
                  ELSE store' = store]_vars

C2_Witness ==
    /\ event.op = "redirect" /\ event.call = "delete" /\ event.ok
    /\ event.resp.status = 404
    /\ store[event.key] = None

(***************************************************************************)
(* C3: Resolve on a valid record, nothing interleaved and the write        *)
(* succeeding, redirects to the target and leaves the stored record with   *)
(* views + 1 and lastViewedAt = now, every other field unchanged.          *)
(***************************************************************************)
C3_ValidResolveCountsOneVisit ==
    [][\A p \in Procs :
        /\ (LoadsRecord(p, "redirect") /\ ~Invalid(Unwrap(Stored(event'.key)), clock))
            => LET rec == Unwrap(Stored(event'.key))
               IN  /\ NoResponse /\ store' = store
                   /\ req'[p].pc = "set"
                   /\ req'[p].value =
                        Some([rec EXCEPT !.views = rec.views + 1,
                                         !.last_visited_timestamp = Some(clock)])
        /\ (Awaits(p, "redirect", "set") /\ event'.ok)
            => LET old == Unwrap(Stored(event'.key))
                   new == Unwrap(StoredNext(event'.key))
               IN  /\ IsSome(Stored(event'.key)) /\ IsSome(StoredNext(event'.key))
                   /\ Responds(302) /\ event'.resp.location = Some(old.url)
                   /\ req[p].value = Some(new)
                   /\ new = [old EXCEPT !.views = old.views + 1,
                                        !.last_visited_timestamp =
                                            new.last_visited_timestamp]]_vars

C3_Witness ==
    /\ event.op = "redirect" /\ event.call = "set" /\ event.ok
    /\ event.resp.status = 302
    /\ IsSome(Stored(event.key))
    /\ Unwrap(Stored(event.key)).views = 2
    /\ Unwrap(Stored(event.key)).last_visited_timestamp = Some(1)
    /\ Unwrap(Stored(event.key)).created_at_timestamp = 0

(***************************************************************************)
(* C4: isValid(record, now) is false iff the record is disabled, or        *)
(* time-expired, or view-exhausted.  LinkModel::is_valid does not look at  *)
(* disabled.                                                               *)
(***************************************************************************)
C4_IsValidIffNoneOfThree ==
    \A k \in Keys : IsSome(Stored(k)) =>
        \A now \in 0..MaxTime :
            (is_valid(Unwrap(Stored(k)), now) = FALSE) <=> Invalid(Unwrap(Stored(k)), now)

(***************************************************************************)
(* C5: CreateOrUpdate with overwrite=false on a key that exists in storage *)
(* returns Conflict and never changes what is stored under the key.        *)
(***************************************************************************)
C5_NoOverwriteConflict ==
    [][\A p \in Procs :
        /\ (Loads(p, "create") /\ ~event'.overwrite /\ IsSome(store[event'.key]))
            => Responds(409) /\ req'[p] = IdleReq
        /\ (event'.p = p /\ event'.op = "create" /\ ~event'.overwrite
                /\ IsSome(store[event'.key]))
            => store' = store]_vars

C5_Witness ==
    /\ event.op = "create" /\ event.call = "get" /\ ~event.overwrite
    /\ event.resp.status = 409
    /\ IsSome(Stored(event.key))
    /\ Unwrap(Stored(event.key)).views = 1

(***************************************************************************)
(* C6: the views counter of the record stored under a key never decreases; *)
(* its only change is the increment by a successful Resolve.  An           *)
(* overwriting CreateOrUpdate resets it to 0 (C1).                         *)
(***************************************************************************)
C6_ViewsNeverDecrease ==
    [][\A k \in Keys :
        (IsSome(Stored(k)) /\ IsSome(StoredNext(k)))
        => LET old == Unwrap(Stored(k))
               new == Unwrap(StoredNext(k))
           IN  /\ new.views >= old.views
               /\ new.views # old.views
                    => /\ new.views = old.views + 1
                       /\ event'.op = "redirect" /\ event'.call = "set"]_vars

(***************************************************************************)
(* C7: every read of a key (Resolve, Details, the existence check) answers *)
(* a disabled, time-expired or view-exhausted record as it answers an      *)
(* absent key: not found.  The existence check looks at presence only.     *)
(***************************************************************************)
C7_InvalidReadsAsAbsent ==
    [][\A p \in Procs :
        /\ \A op \in {"exists", "redirect", "details"} :
            (LoadsRecord(p, op) /\ Invalid(Unwrap(Stored(event'.key)), clock))
                => \/ Responds(404)
                   \/ NoResponse /\ req'[p].pc = "delete"
        /\ \A op \in {"redirect", "details"} :
            Awaits(p, op, "delete") => Responds(404)]_vars

(***************************************************************************)
(* C8: a record created with expireIn = 0 (expiresAt = creation time) is   *)
(* NotFound and deleted by a Resolve at any now >= expiresAt.              *)
(***************************************************************************)
ExpiresAtCreation(rec) ==
    ~rec.disabled /\ rec.expiry_timestamp = Some(rec.created_at_timestamp)

\* As claimed: from now = expiresAt on.
C8_ExpireInZeroGoneAtExpiry ==
    [][\A p \in Procs :
        (/\ LoadsRecord(p, "redirect")
         /\ ExpiresAtCreation(Unwrap(Stored(event'.key)))
         /\ clock >= Unwrap(Unwrap(Stored(event'.key)).expiry_timestamp))
        => NoResponse /\ req'[p].pc = "delete"]_vars

\* As amended: strictly after expiresAt the Resolve deletes and answers 404;
\* at now = expiresAt the record, unless view-exhausted, still redirects.
C8_ExpireInZeroGoneAfterExpiry ==
    [][\A p \in Procs :
        /\ (LoadsRecord(p, "redirect") /\ ExpiresAtCreation(Unwrap(Stored(event'.key))))
            => LET rec == Unwrap(Stored(event'.key))
               IN  /\ clock > Unwrap(rec.expiry_timestamp)
                        => NoResponse /\ req'[p].pc = "delete" /\ req'[p].value = Some(rec)
                   /\ (clock = Unwrap(rec.expiry_timestamp) /\ ~ViewExhausted(rec))
                        => NoResponse /\ req'[p].pc = "set"
        /\ (Awaits(p, "redirect", "delete") /\ event'.ok)
            => Responds(404) /\ store'[event'.key] = None]_vars

C8_Witness ==
    \E p \in Procs :
        /\ req[p].op = "redirect" /\ req[p].pc = "delete"
        /\ ExpiresAtCreation(Unwrap(req[p].value))
        /\ ~ViewExhausted(Unwrap(req[p].value))
        /\ clock > Unwrap(Unwrap(req[p].value).expiry_timestamp)

(***************************************************************************)
(* C9: for a record created with maxViews = N >= 1, not disabled, without  *)
(* expiry, Resolves run one after another: each of the first N redirects   *)
(* to the target and raises the stored views by 1; the (N+1)-th returns    *)
(* NotFound and the key is absent afterwards.                              *)
(***************************************************************************)
Limited(rec) ==
    ~rec.disabled /\ rec.expiry_timestamp = None /\ IsSome(rec.max_views)

C9_MaxViewsScenario ==
    [][\A p \in Procs :
        \* created with views = 0
        /\ (Awaits(p, "create", "set") /\ event'.ok /\ ~req[p].already_exists)
            => /\ IsSome(StoredNext(event'.key))
               /\ Unwrap(StoredNext(event'.key)).views = 0
               /\ Unwrap(StoredNext(event'.key)).max_views = Unwrap(req[p].body).max_views
        \* the first N Resolves go on to count the visit, the next one to delete
        /\ (LoadsRecord(p, "redirect") /\ Limited(Unwrap(Stored(event'.key))))
            => LET rec == Unwrap(Stored(event'.key))
               IN  /\ rec.views <= Unwrap(rec.max_views)
                   /\ NoResponse
                   /\ IF rec.views < Unwrap(rec.max_views)
                      THEN req'[p].pc = "set" /\ Unwrap(req'[p].value).views = rec.views + 1
                      ELSE req'[p].pc = "delete"
        /\ (Awaits(p, "redirect", "set") /\ event'.ok /\ Limited(Unwrap(req[p].value)))
            => /\ Responds(302)
               /\ event'.resp.location = Some(Unwrap(Stored(event'.key)).url)
               /\ Unwrap(StoredNext(event'.key)).views = Unwrap(Stored(event'.key)).views + 1
               /\ Unwrap(StoredNext(event'.key)).views <= Unwrap(Unwrap(req[p].value).max_views)
        /\ (Awaits(p, "redirect", "delete") /\ event'.ok /\ Limited(Unwrap(req[p].value)))
            => Responds(404) /\ store'[event'.key] = None]_vars

C9_Witness ==
    \E p \in Procs :
        /\ req[p].op = "redirect" /\ req[p].pc = "delete"
        /\ Limited(Unwrap(req[p].value))
        /\ Unwrap(req[p].value).max_views = Some(2)
        /\ Unwrap(req[p].value).views = 2

(***************************************************************************)
(* C10: the storage driver never panics its caller: with the backend       *)
(* unavailable, get returns absence and set/delete return false.  get      *)
(* unwraps the backend's Err.                                              *)
(***************************************************************************)
C10_DriverNeverPanics ==
    /\ event.resp.status # -1
    /\ (event.call = "get" /\ ~event.ok /\ event.op # "create")
            => event.resp.status = 404

(***************************************************************************)
(* C11: with an empty configured secret every authenticated operation      *)
(* (Details, CreateOrUpdate, Delete) is rejected, whatever Authorization   *)
(* header the request carries, the empty one included.                     *)
(***************************************************************************)
C11_EmptySecretRejectsAll ==
    [][authToken = "" =>
        \A p \in Procs :
            (event'.p = p /\ event'.op \in {"details", "create", "delete"})
            => /\ event'.call = "none" /\ Responds(401)
               /\ store' = store /\ req'[p] = IdleReq]_vars

C11_Witness ==
    /\ authToken = ""
    /\ event.op \in {"details", "create", "delete"}
    /\ event.resp.status = 401

(***************************************************************************)
(* C12: a CreateOrUpdate whose target has the domain of the request's own  *)
(* URL is rejected as bad input, whatever the target's path or scheme and  *)
(* whether or not the key exists, and writes nothing.                      *)
(***************************************************************************)
\* The url strings that parse to a target on the domain of the request.
SelfDomainUrlStrings(k) ==
    {u \in UrlStrings :
        IsSome(UrlParse(u)) /\ Unwrap(UrlParse(u)).domain = RequestUrl(k).domain}

C12_SelfDomainRejected ==
    [][\A p \in Procs :
        (event'.p = p /\ event'.op = "create" /\ req[p].pc = "idle")
        => \A u \in SelfDomainUrlStrings(event'.key) :
            create_or_update_shortlink(p, event'.key, Some("secret"),
                                       [DefaultBody EXCEPT !.url = u,
                                                           !.overwrite = event'.overwrite])
            => \/ authToken # "secret" /\ Responds(401)
               \/ /\ Responds(400) /\ event'.call = "none"
                  /\ store' = store /\ req'[p] = IdleReq]_vars

C12_Witness ==
    /\ event.op = "create" /\ event.resp.status = 400
    /\ event.resp.message = "Cannot make a Shortlink to the same domain"
    /\ event.overwrite
    /\ IsSome(store[event.key])

(***************************************************************************)
(* C13: Delete returns NotFound and leaves storage unchanged when the key  *)
(* is absent; when it is present it returns Failed if the backend delete   *)
(* fails, and otherwise Deleted with the key absent afterwards.            *)
(***************************************************************************)
C13_Delete ==
    [][\A p \in Procs :
        /\ Loads(p, "delete")
            => /\ store' = store
               /\ IF store[event'.key] = None
                  THEN Responds(404) /\ req'[p] = IdleReq
                  ELSE NoResponse /\ req'[p].pc = "delete"
        /\ Awaits(p, "delete", "delete")
            => IF event'.ok
               THEN Responds(200) /\ store' = [store EXCEPT ![event'.key] = None]
               ELSE Responds(500) /\ store' = store]_vars

C13_Witness ==
    /\ event.op = "delete" /\ event.call = "delete" /\ event.ok
    /\ event.resp.status = 200
    /\ store[event.key] = None

(***************************************************************************)
(* C14: Details on a valid record returns the full record and leaves       *)
(* storage unchanged (no visit is counted); on an invalid record it        *)
(* deletes the key and returns NotFound as Resolve does.                   *)
(***************************************************************************)
\* As claimed: after Details of an invalid record, the backend answering,
\* the key is absent.
C14_DetailsDeletesInvalid ==
    [][\A p \in Procs :
        /\ (LoadsRecord(p, "details") /\ Invalid(Unwrap(Stored(event'.key)), clock))
            => \/ Responds(404) /\ store'[event'.key] = None
               \/ NoResponse /\ req'[p].pc = "delete"
        /\ (Awaits(p, "details", "delete") /\ event'.ok)
            => Responds(404) /\ store'[event'.key] = None]_vars

\* As amended: a valid record is returned whole and nothing is written; an
\* invalid one is answered as Resolve answers it: 404, a disabled record
\* staying stored, any other deleted if the backend delete succeeds.
C14_DetailsReadsOnly ==
    [][\A p \in Procs :
        /\ LoadsRecord(p, "details")
            => LET rec == Unwrap(Stored(event'.key))
               IN  /\ store' = store
                   /\ IF ~Invalid(rec, clock)
                      THEN /\ Responds(200) /\ event'.resp.json = Some(rec)
                           /\ req'[p] = IdleReq
                      ELSE IF Disabled(rec)
                      THEN Responds(404) /\ req'[p] = IdleReq
                      ELSE NoResponse /\ req'[p].pc = "delete"
        /\ Awaits(p, "details", "delete")
            => /\ Responds(404)
               /\ IF event'.ok THEN store' = [store EXCEPT ![event'.key] = None]
                  ELSE store' = store]_vars

C14_Witness ==
    /\ event.op = "details" /\ event.call = "get"
    /\ event.resp.status = 200
    /\ event.resp.json = Stored(event.key)
    /\ Unwrap(Stored(event.key)).views = 1

(***************************************************************************)
(* C15: a Details, CreateOrUpdate or Delete request without valid          *)
(* authentication is answered 401 when it carries no credential and 403    *)
(* when it carries a wrong one.  The handlers answer 401 to both.          *)
(***************************************************************************)
C15_UnauthorizedVsForbidden ==
    [][authToken # "" =>
        \A p \in Procs, k \in Keys :
            /\ (\/ get_shortlink_details(p, k, None)
                \/ delete_shortlink(p, k, None)
                \/ create_or_update_shortlink(p, k, None, DefaultBody))
                => Responds(401)
            /\ (\/ get_shortlink_details(p, k, Some("wrong"))
                \/ delete_shortlink(p, k, Some("wrong"))
                \/ create_or_update_shortlink(p, k, Some("wrong"), DefaultBody))
                => Responds(403)]_vars

(***************************************************************************)
(* C16: lost update is possible: two concurrent Resolves of one valid key  *)
(* both redirect while the stored views ends only 1 higher, the later      *)
(* write replacing the earlier one.                                        *)
(***************************************************************************)
\* The write of a Resolve is unconditional: whatever the key holds by then,
\* it is replaced by the record this Resolve loaded, one visit added, and
\* the client is redirected.
C16_LastWriteWins ==
    [][\A p \in Procs :
        (Awaits(p, "redirect", "set") /\ event'.ok)
        => /\ Responds(302)
           /\ event'.resp.location = Some(Unwrap(req[p].value).url)
           /\ StoredNext(event'.key) = req[p].value]_vars

\* Two Resolves have redirected since the record was created with views = 0,
\* none is in flight, no Delete has come in between, and views is 1.
C16_Witness ==
    /\ event.op = "redirect" /\ event.call = "set" /\ event.resp.status = 302
    /\ hist.redirects = 2 /\ hist.fresh = {} /\ ~hist.deleted
    /\ IsSome(hist.config)
    /\ IsSome(Stored(event.key))
    /\ Unwrap(Stored(event.key)).views = 1

(***************************************************************************)
(* C17: in any interleaving of concurrent Resolves of one key whose record *)
(* has maxViews = N, no CreateOrUpdate in between, at most N of them       *)
(* redirect.  Two Resolves that both load views = N - 1 both redirect.     *)
(***************************************************************************)
C17_RedirectsWithinMaxViews ==
    \A k \in Keys :
        (IsSome(Stored(k)) /\ IsSome(Unwrap(Stored(k)).max_views))
        => hist.redirects <= Unwrap(Unwrap(Stored(k)).max_views)

(***************************************************************************)
(* C18: once Delete has returned Deleted the key stays absent until a      *)
(* later CreateOrUpdate writes it, also with a Resolve in flight that read *)
(* the record before the delete.  The write of that Resolve puts the       *)
(* record back.                                                            *)
(***************************************************************************)
C18_DeletedStaysAbsent ==
    hist.deleted => \A k \in Keys : store[k] = None

(***************************************************************************)
(* C19: after a successful CreateOrUpdate the stored target, disabled,     *)
(* maxViews and expiresAt stay those of that request until the next        *)
(* CreateOrUpdate or deletion of the key.  A Resolve that loaded the       *)
(* previous record writes the previous values back.                        *)
(***************************************************************************)
C19_ConfigStays ==
    IsSome(hist.config)
    => \A k \in Keys :
        /\ IsSome(Stored(k))
        /\ Config(Unwrap(Stored(k))) = Unwrap(hist.config)

(***************************************************************************)
(* C20: of two concurrent CreateOrUpdate requests with overwrite=false on  *)
(* a key absent at the start at most one succeeds.  Both see the key       *)
(* absent before either writes, and both succeed.                          *)
(***************************************************************************)
C20_OnePlainCreate ==
    hist.plain <= 1

(***************************************************************************)
(* C21: CreateOrUpdate decides "existing" by the raw presence of the key:  *)
(* on a key whose record is expired or view-exhausted but not yet deleted, *)
(* overwrite=false returns Conflict, and overwrite=true succeeds and       *)
(* reports overwritten = true.                                             *)
(***************************************************************************)
C21_ExistingIsRawPresence ==
    [][\A p \in Procs :
        /\ (/\ LoadsRecord(p, "create")
            /\ \/ TimeExpired(Unwrap(Stored(event'.key)), clock)
               \/ ViewExhausted(Unwrap(Stored(event'.key))))
            => /\ store' = store
               /\ IF event'.overwrite
                  THEN /\ NoResponse
                       /\ req'[p].pc = "set" /\ req'[p].already_exists
                  ELSE Responds(409) /\ req'[p] = IdleReq
        /\ (Awaits(p, "create", "set") /\ event'.ok /\ req[p].already_exists)
            => /\ Responds(200)
               /\ Unwrap(event'.resp.json).overwritten
               /\ StoredNext(event'.key) = req[p].value]_vars

\* An overwriting CreateOrUpdate has found a view-exhausted record present
\* and is about to write over it.
C21_Witness ==
    \E p \in Procs :
        /\ event.p = p /\ event.op = "create" /\ event.call = "get"
        /\ req[p].pc = "set" /\ req[p].already_exists
        /\ IsSome(Stored(event.key))
        /\ ViewExhausted(Unwrap(Stored(event.key)))

(***************************************************************************)
(* C22: in every reachable state, after any interleaving of                *)
(* CreateOrUpdate, Resolve, Details and Delete requests, each stored       *)
(* record with maxViews set has views <= maxViews.                         *)
(***************************************************************************)
C22_ViewsWithinMaxViews ==
    \A k \in Keys :
        (IsSome(Stored(k)) /\ IsSome(Unwrap(Stored(k)).max_views))
        => Unwrap(Stored(k)).views <= Unwrap(Unwrap(Stored(k)).max_views)

\* Concurrent Resolves have redirected more often than max_views allows,
\* and the stored views stands at max_views.
C22_Witness ==
    \E k \in Keys :
        /\ IsSome(Stored(k)) /\ IsSome(Unwrap(Stored(k)).max_views)
        /\ Unwrap(Stored(k)).views = Unwrap(Unwrap(Stored(k)).max_views)
        /\ hist.redirects > Unwrap(Unwrap(Stored(k)).max_views)

(***************************************************************************)
(* C23: when the write of the incremented record fails during Resolve of   *)
(* a valid record, Resolve still returns the redirect to the target, no    *)
(* error is surfaced, and the stored record keeps its previous views and   *)
(* lastViewedAt.                                                           *)
(***************************************************************************)
C23_FailedWriteStillRedirects ==
    [][\A p \in Procs :
        (Awaits(p, "redirect", "set") /\ ~event'.ok)
        => /\ Responds(302)
           /\ event'.resp.location = Some(Unwrap(req[p].value).url)
           /\ store' = store
           /\ req'[p] = IdleReq]_vars

\* A Resolve whose write failed has redirected, and the record it loaded
\* is still stored with no visit counted.
C23_Witness ==
    /\ event.op = "redirect" /\ event.call = "set" /\ ~event.ok
    /\ event.resp.status = 302
    /\ IsSome(Stored(event.key))
    /\ Unwrap(Stored(event.key)).views = 0
    /\ Unwrap(Stored(event.key)).last_visited_timestamp = None
    /\ event.resp.location = Some(Unwrap(Stored(event.key)).url)

(***************************************************************************)
(* C24: Resolve and Details on a key whose stored payload does not decode  *)
(* as a record return NotFound, exactly as for an absent key, and never an *)
(* error.                                                                  *)
(***************************************************************************)
C24_UndecodableIsNotFound ==
    [][\A p \in Procs, op \in {"redirect", "details"} :
        (Loads(p, op) /\ store[event'.key] \in {None, Some(Garbage)})
        => /\ Responds(404)
           /\ store' = store
           /\ req'[p] = IdleReq]_vars

\* Resolve, or Details, has answered 404 on a key that holds a payload
\* which is no record; the payload is still there.
C24_Witness ==
    /\ event.op \in {"redirect", "details"}
    /\ event.call = "get" /\ event.ok
    /\ event.resp.status = 404
    /\ store[event.key] = Some(Garbage)

====
